---- MODULE Spec2Model ----
(***************************************************************************)
(* CppInstanceManager<InstanceClass> (app/src/cpp_instance_manager.h):     *)
(* a table from instance address to reference count, guarded by one mutex. *)
(* Every statement of AddReference and ReleaseReference is one step of the *)
(* calling thread, so that the interleavings the mutex allows are the      *)
(* interleavings of the model.                                             *)
(***************************************************************************)
EXTENDS Integers, FiniteSets, Sequences, TLC

\* ---------------------------------------------------------------- bounds
NumThreads == 2    \* threads calling into the manager
MaxCalls == 4      \* calls started in one run of the free workload

\* ---------------------------------------------------------------- values
Thread == 1..NumThreads
Null == "null"                      \* the null pointer
Instance == {Null, "A", "B"}        \* InstanceClass* values
End == "end"                        \* container_.end()
NoValue == "none"                   \* a local that holds nothing yet
NoThread == 0                       \* the mutex has no owner

VARIABLES
    container_,      \* std::unordered_map<InstanceClass*, int32_t>
    manager_mutex_,  \* [owner, depth]
    pc,              \* per thread: the statement it is at
    op,              \* per thread: the member function it is in
    instance,        \* per thread: the argument of the call
    it,              \* per thread: the iterator find() returned
    ret,             \* per thread: the value being returned
    pre,             \* per thread: table and deletions when it took the lock
    ext,             \* per thread: it holds mutex() outside of a call
    deleted,         \* per instance: how often delete ran on that address
    inserted,        \* per instance: how often the address entered the table
    adds,            \* per instance: increments since it entered the table
    rels,            \* per instance: decrements since it entered the table
    calls,           \* calls started so far (free workload)
    step,            \* per thread: calls completed (paired workload)
    mode,            \* the workload the callers run
    crashed,         \* the process was aborted
    leaked           \* keys the table held when the manager was destroyed

vars == <<container_, manager_mutex_, pc, op, instance, it, ret, pre, ext,
          deleted, inserted, adds, rels, calls, step, mode, crashed, leaked>>

\* ------------------------------------------------------------- the mutex
\* Mutex of app/src/include/firebase/internal/mutex.h, used through
\* MutexLock (scoped) and through mutex(): one owner, re-acquirable by it.
MutexFree == [owner |-> NoThread, depth |-> 0]

\* MutexCanAcquire of a mutex that its owner cannot take again
MutexCanAcquire_NonRecursive(m, t) == m.owner = NoThread

MutexCanAcquire(m, t) == m.owner \in {NoThread, t}

MutexAcquire(m, t) == [owner |-> t, depth |-> m.depth + 1]

MutexRelease(m) ==
    IF m.depth <= 1 THEN MutexFree ELSE [m EXCEPT !.depth = @ - 1]

\* ------------------------------------------------------------- the table
EmptyTable == [x \in {} |-> 0]

\* container_.find(instance)
Find(tbl, x) == IF x \in DOMAIN tbl THEN x ELSE End

\* int32_t, the type of the counts of container_
Int32Max == 2147483647
Int32Min == -Int32Max - 1

\* ++it->second on an int32_t. Below Int32Max it adds one. At Int32Max the
\* signed overflow is undefined behaviour: the build either wraps the count
\* around or traps and ends the process.
IncrementOutcomes(c) == IF c = Int32Max THEN {"wrap", "trap"} ELSE {"ok"}

Increment(tbl, x) ==
    [tbl EXCEPT ![x] = IF @ = Int32Max THEN Int32Min ELSE @ + 1]

\* --it->second on an int32_t, undefined the same way at Int32Min
DecrementOutcomes(c) == IF c = Int32Min THEN {"wrap", "trap"} ELSE {"ok"}

Decrement(tbl, x) ==
    [tbl EXCEPT ![x] = IF @ = Int32Min THEN Int32Max ELSE @ - 1]

\* container_.emplace(instance, 1): no effect when the key is present
Emplace(tbl, x, v) ==
    IF x \in DOMAIN tbl THEN tbl
    ELSE [y \in DOMAIN tbl \cup {x} |-> IF y = x THEN v ELSE tbl[y]]

\* container_.erase(it)
Erase(tbl, x) == [y \in DOMAIN tbl \ {x} |-> tbl[y]]

\* the count the table holds for x, 0 when x is no key
CountOf(tbl, x) == IF x \in DOMAIN tbl THEN tbl[x] ELSE 0

\* --------------------------------------------- the calls run by themselves
\* AddReference(x), line 93-102, run with no other thread between its
\* statements: the table, the deletions and the value returned
WholeAddReference(tbl, del, x) ==
    IF Find(tbl, x) # End
    THEN [tbl |-> Increment(tbl, x), del |-> del,
          ret |-> Increment(tbl, x)[x]]
    ELSE [tbl |-> Emplace(tbl, x, 1), del |-> del,
          ret |-> Emplace(tbl, x, 1)[x]]

\* ReleaseReference(x), line 109-120, run the same way
WholeReleaseReference(tbl, del, x) ==
    IF x = Null THEN [tbl |-> tbl, del |-> del, ret |-> -1]
    ELSE IF Find(tbl, x) # End
    THEN LET count == Decrement(tbl, x)[x] IN
         IF count = 0
         THEN [tbl |-> Erase(Decrement(tbl, x), x),
               del |-> [del EXCEPT ![x] = @ + 1], ret |-> count]
         ELSE [tbl |-> Decrement(tbl, x), del |-> del, ret |-> count]
    ELSE [tbl |-> tbl, del |-> del, ret |-> -1]

WholeCall(o, tbl, del, x) ==
    IF o = "AddReference" THEN WholeAddReference(tbl, del, x)
    ELSE WholeReleaseReference(tbl, del, x)

\* ------------------------------------------------------------------ Init
NoPre == [tbl |-> EmptyTable, del |-> [x \in Instance |-> 0]]

Init ==
    /\ container_ = EmptyTable
    /\ manager_mutex_ = MutexFree
    /\ pc = [t \in Thread |-> "idle"]
    /\ op = [t \in Thread |-> NoValue]
    /\ instance = [t \in Thread |-> NoValue]
    /\ it = [t \in Thread |-> NoValue]
    /\ ret = [t \in Thread |-> 0]
    /\ pre = [t \in Thread |-> NoPre]
    /\ ext = [t \in Thread |-> FALSE]
    /\ deleted = [x \in Instance |-> 0]
    /\ inserted = [x \in Instance |-> 0]
    /\ adds = [x \in Instance |-> 0]
    /\ rels = [x \in Instance |-> 0]
    /\ calls = 0
    /\ step = [t \in Thread |-> 0]
    /\ mode \in {"free", "paired"}
    /\ crashed = FALSE
    /\ leaked = {}

\* A registry in which "A" has been given Int32Max - 1 references and none
\* has been released; the calls are counted from this state on.
InitNearMax ==
    /\ container_ = [x \in {"A"} |-> Int32Max - 1]
    /\ manager_mutex_ = MutexFree
    /\ pc = [t \in Thread |-> "idle"]
    /\ op = [t \in Thread |-> NoValue]
    /\ instance = [t \in Thread |-> NoValue]
    /\ it = [t \in Thread |-> NoValue]
    /\ ret = [t \in Thread |-> 0]
    /\ pre = [t \in Thread |-> NoPre]
    /\ ext = [t \in Thread |-> FALSE]
    /\ deleted = [x \in Instance |-> 0]
    /\ inserted = [x \in Instance |-> IF x = "A" THEN 1 ELSE 0]
    /\ adds = [x \in Instance |-> 0]
    /\ rels = [x \in Instance |-> 0]
    /\ calls = 0
    /\ step = [t \in Thread |-> 0]
    /\ mode = "free"
    /\ crashed = FALSE
    /\ leaked = {}

\* The process is gone: nothing of its state is left to observe.
Abort ==
    /\ container_' = EmptyTable
    /\ manager_mutex_' = MutexFree
    /\ pc' = [t \in Thread |-> "idle"]
    /\ op' = [t \in Thread |-> NoValue]
    /\ instance' = [t \in Thread |-> NoValue]
    /\ it' = [t \in Thread |-> NoValue]
    /\ ret' = [t \in Thread |-> 0]
    /\ pre' = [t \in Thread |-> NoPre]
    /\ ext' = [t \in Thread |-> FALSE]
    /\ deleted' = [x \in Instance |-> 0]
    /\ inserted' = [x \in Instance |-> 0]
    /\ adds' = [x \in Instance |-> 0]
    /\ rels' = [x \in Instance |-> 0]
    /\ calls' = 0
    /\ step' = [t \in Thread |-> 0]
    /\ crashed' = TRUE
    /\ leaked' = {}
    /\ UNCHANGED mode

\* ------------------------------------------------------------ the callers
\* What a caller may call next. Free workload: any call on any pointer, up to
\* MaxCalls calls. Paired workload: every thread calls AddReference("A")
\* once and then ReleaseReference("A") once.
MayCall(t, o, x) ==
    /\ ~crashed
    /\ pc[t] = "idle"
    /\ IF mode = "free"
       THEN calls < MaxCalls
       ELSE /\ x = "A"
            /\ ~ext[t]
            /\ \/ o = "AddReference" /\ step[t] = 0
               \/ o = "ReleaseReference" /\ step[t] = 1

Called(t, o, x) ==
    /\ op' = [op EXCEPT ![t] = o]
    /\ instance' = [instance EXCEPT ![t] = x]
    /\ calls' = IF mode = "free" THEN calls + 1 ELSE calls

\* ---------------------------------------------------------- AddReference
\* line 89-92: the call; FIREBASE_DEV_ASSERT_MESSAGE passes, or is compiled out
AddCall(t, x) ==
    /\ MayCall(t, "AddReference", x)
    /\ Called(t, "AddReference", x)
    /\ pc' = [pc EXCEPT ![t] = "add_lock"]
    /\ UNCHANGED <<container_, manager_mutex_, it, ret, pre, ext, deleted,
                   inserted, step, adds, rels, mode, crashed, leaked>>

\* line 90: FIREBASE_DEV_ASSERT_MESSAGE(instance, ...) fails in a debug build
AddAssertFails(t) ==
    /\ MayCall(t, "AddReference", Null)
    /\ Abort

\* AddLock with the MutexLock left out
AddLock_NoLock(t) ==
    /\ ~crashed
    /\ pc[t] = "add_lock"
    /\ pre' = [pre EXCEPT ![t] = [tbl |-> container_, del |-> deleted]]
    /\ pc' = [pc EXCEPT ![t] = "add_find"]
    /\ UNCHANGED <<container_, manager_mutex_, op, instance, it, ret, ext,
                   deleted, inserted, adds, rels, calls, step, mode, crashed, leaked>>

\* line 93: MutexLock lock(manager_mutex_)
AddLock(t) ==
    /\ ~crashed
    /\ pc[t] = "add_lock"
    /\ MutexCanAcquire(manager_mutex_, t)
    /\ manager_mutex_' = MutexAcquire(manager_mutex_, t)
    /\ pre' = [pre EXCEPT ![t] = [tbl |-> container_, del |-> deleted]]
    /\ pc' = [pc EXCEPT ![t] = "add_find"]
    /\ UNCHANGED <<container_, op, instance, it, ret, ext, deleted, inserted,
                   calls, step, adds, rels, mode, crashed, leaked>>

\* line 94-95: auto it = container_.find(instance); if (it != container_.end())
AddFind(t) ==
    /\ ~crashed
    /\ pc[t] = "add_find"
    /\ it' = [it EXCEPT ![t] = Find(container_, instance[t])]
    /\ pc' = [pc EXCEPT ![t] =
                IF it'[t] # End THEN "add_inc" ELSE "add_emplace"]
    /\ UNCHANGED <<container_, manager_mutex_, op, instance, ret, pre, ext,
                   deleted, inserted, calls, step, adds, rels, mode, crashed, leaked>>

\* AddInc returning the count from before the increment (it->second++)
AddInc_PostIncrement(t) ==
    /\ ~crashed
    /\ pc[t] = "add_inc"
    /\ container_' = Increment(container_, it[t])
    /\ ret' = [ret EXCEPT ![t] = CountOf(container_, it[t])]
    /\ adds' = [adds EXCEPT ![it[t]] = @ + 1]
    /\ pc' = [pc EXCEPT ![t] = "unlock"]
    /\ UNCHANGED <<manager_mutex_, op, instance, it, pre, ext, deleted,
                   inserted, rels, calls, step, mode, crashed, leaked>>

\* line 96-97: ++it->second; return it->second;
AddInc(t) ==
    /\ ~crashed
    /\ pc[t] = "add_inc"
    /\ \E outcome \in IncrementOutcomes(CountOf(container_, it[t])) :
          IF outcome = "trap"
          THEN Abort
          ELSE /\ container_' = Increment(container_, it[t])
               /\ ret' = [ret EXCEPT ![t] = CountOf(container_', it[t])]
               /\ adds' = [adds EXCEPT ![it[t]] = @ + 1]
               /\ pc' = [pc EXCEPT ![t] = "unlock"]
               /\ UNCHANGED <<manager_mutex_, op, instance, it, pre, ext,
                              deleted, inserted, rels, calls, step, mode,
                              crashed, leaked>>

\* AddEmplace starting the count at 0
AddEmplace_Zero(t) ==
    /\ ~crashed
    /\ pc[t] = "add_emplace"
    /\ container_' = Emplace(container_, instance[t], 0)
    /\ inserted' = IF instance[t] \in DOMAIN container_ THEN inserted
                   ELSE [inserted EXCEPT ![instance[t]] = @ + 1]
    /\ adds' = [adds EXCEPT ![instance[t]] = @ + 1]
    /\ ret' = [ret EXCEPT ![t] = CountOf(container_', instance[t])]
    /\ pc' = [pc EXCEPT ![t] = "unlock"]
    /\ UNCHANGED <<manager_mutex_, op, instance, it, pre, ext, deleted,
                   rels, calls, step, mode, crashed, leaked>>

\* line 99-101: emplace(instance, 1); return result.first->second;
AddEmplace(t) ==
    /\ ~crashed
    /\ pc[t] = "add_emplace"
    /\ container_' = Emplace(container_, instance[t], 1)
    /\ inserted' = IF instance[t] \in DOMAIN container_ THEN inserted
                   ELSE [inserted EXCEPT ![instance[t]] = @ + 1]
    /\ adds' = [adds EXCEPT ![instance[t]] = @ + 1]
    /\ ret' = [ret EXCEPT ![t] = CountOf(container_', instance[t])]
    /\ pc' = [pc EXCEPT ![t] = "unlock"]
    /\ UNCHANGED <<manager_mutex_, op, instance, it, pre, ext, deleted,
                   rels, calls, step, mode, crashed, leaked>>

\* ------------------------------------------------------ ReleaseReference
\* RelCall with the null check left out
RelCall_NoNullCheck(t, x) ==
    /\ MayCall(t, "ReleaseReference", x)
    /\ Called(t, "ReleaseReference", x)
    /\ pc' = [pc EXCEPT ![t] = "rel_lock"]
    /\ UNCHANGED <<container_, manager_mutex_, it, ret, pre, ext, deleted,
                   inserted, adds, rels, step, mode, crashed, leaked>>

\* line 108-109: the call; if (!instance) return -1;
RelCall(t, x) ==
    /\ MayCall(t, "ReleaseReference", x)
    /\ Called(t, "ReleaseReference", x)
    /\ IF x = Null
       THEN /\ ret' = [ret EXCEPT ![t] = -1]
            /\ pc' = [pc EXCEPT ![t] = "ret"]
       ELSE /\ ret' = ret
            /\ pc' = [pc EXCEPT ![t] = "rel_lock"]
    /\ UNCHANGED <<container_, manager_mutex_, it, pre, ext, deleted,
                   inserted, step, adds, rels, mode, crashed, leaked>>

\* RelLock with the MutexLock left out
RelLock_NoLock(t) ==
    /\ ~crashed
    /\ pc[t] = "rel_lock"
    /\ pre' = [pre EXCEPT ![t] = [tbl |-> container_, del |-> deleted]]
    /\ pc' = [pc EXCEPT ![t] = "rel_find"]
    /\ UNCHANGED <<container_, manager_mutex_, op, instance, it, ret, ext,
                   deleted, inserted, adds, rels, calls, step, mode, crashed, leaked>>

\* line 110: MutexLock lock(manager_mutex_)
RelLock(t) ==
    /\ ~crashed
    /\ pc[t] = "rel_lock"
    /\ MutexCanAcquire(manager_mutex_, t)
    /\ manager_mutex_' = MutexAcquire(manager_mutex_, t)
    /\ pre' = [pre EXCEPT ![t] = [tbl |-> container_, del |-> deleted]]
    /\ pc' = [pc EXCEPT ![t] = "rel_find"]
    /\ UNCHANGED <<container_, op, instance, it, ret, ext, deleted, inserted,
                   calls, step, adds, rels, mode, crashed, leaked>>

\* RelFind looking the key up with operator[], which inserts a missing key
\* with count 0
RelFind_InsertsDefault(t) ==
    /\ ~crashed
    /\ pc[t] = "rel_find"
    /\ container_' = Emplace(container_, instance[t], 0)
    /\ it' = [it EXCEPT ![t] = instance[t]]
    /\ pc' = [pc EXCEPT ![t] = "rel_dec"]
    /\ UNCHANGED <<manager_mutex_, op, instance, ret, pre, ext, deleted,
                   inserted, adds, rels, calls, step, mode, crashed, leaked>>

\* line 111-112, 120: find; if not found, return -1
RelFind(t) ==
    /\ ~crashed
    /\ pc[t] = "rel_find"
    /\ it' = [it EXCEPT ![t] = Find(container_, instance[t])]
    /\ IF it'[t] # End
       THEN /\ pc' = [pc EXCEPT ![t] = "rel_dec"]
            /\ ret' = ret
       ELSE /\ pc' = [pc EXCEPT ![t] = "unlock"]
            /\ ret' = [ret EXCEPT ![t] = -1]
    /\ UNCHANGED <<container_, manager_mutex_, op, instance, pre, ext,
                   deleted, inserted, calls, step, adds, rels, mode, crashed, leaked>>

\* RelDec deleting when the count is 1 or less (count <= 1)
RelDec_DeleteAtOne(t) ==
    /\ ~crashed
    /\ pc[t] = "rel_dec"
    /\ container_' = Decrement(container_, it[t])
    /\ ret' = [ret EXCEPT ![t] = CountOf(container_', it[t])]
    /\ rels' = [rels EXCEPT ![it[t]] = @ + 1]
    /\ pc' = [pc EXCEPT ![t] = IF ret'[t] <= 1 THEN "rel_delete" ELSE "unlock"]
    /\ UNCHANGED <<manager_mutex_, op, instance, it, pre, ext, deleted,
                   inserted, adds, calls, step, mode, crashed, leaked>>

\* RelDec taking the count from before the decrement (it->second--)
RelDec_PostDecrement(t) ==
    /\ ~crashed
    /\ pc[t] = "rel_dec"
    /\ container_' = Decrement(container_, it[t])
    /\ ret' = [ret EXCEPT ![t] = CountOf(container_, it[t])]
    /\ rels' = [rels EXCEPT ![it[t]] = @ + 1]
    /\ pc' = [pc EXCEPT ![t] = IF ret'[t] = 0 THEN "rel_delete" ELSE "unlock"]
    /\ UNCHANGED <<manager_mutex_, op, instance, it, pre, ext, deleted,
                   inserted, adds, calls, step, mode, crashed, leaked>>

\* line 113-114, 118: int count = (--it->second); if (count == 0) ... return count
RelDec(t) ==
    /\ ~crashed
    /\ pc[t] = "rel_dec"
    /\ \E outcome \in DecrementOutcomes(CountOf(container_, it[t])) :
          IF outcome = "trap"
          THEN Abort
          ELSE /\ container_' = Decrement(container_, it[t])
               /\ ret' = [ret EXCEPT ![t] = CountOf(container_', it[t])]
               /\ rels' = [rels EXCEPT ![it[t]] = @ + 1]
               /\ pc' = [pc EXCEPT ![t] =
                           IF ret'[t] = 0 THEN "rel_delete" ELSE "unlock"]
               /\ UNCHANGED <<manager_mutex_, op, instance, it, pre, ext,
                              deleted, inserted, adds, calls, step, mode,
                              crashed, leaked>>

\* RelDelete with the delete left out
RelDelete_Skip(t) ==
    /\ ~crashed
    /\ pc[t] = "rel_delete"
    /\ pc' = [pc EXCEPT ![t] = "rel_erase"]
    /\ UNCHANGED <<container_, manager_mutex_, op, instance, it, ret, pre,
                   ext, deleted, inserted, adds, rels, calls, step, mode,
                   crashed, leaked>>

\* line 115: delete it->first
RelDelete(t) ==
    /\ ~crashed
    /\ pc[t] = "rel_delete"
    /\ deleted' = [deleted EXCEPT ![it[t]] = @ + 1]
    /\ pc' = [pc EXCEPT ![t] = "rel_erase"]
    /\ UNCHANGED <<container_, manager_mutex_, op, instance, it, ret, pre,
                   ext, inserted, calls, step, adds, rels, mode, crashed, leaked>>

\* line 115: delete of an address deleted before. Unless the allocator has
\* handed the address out again this is a double free, which may end the
\* process instead of returning.
RelDeleteAgain(t) ==
    /\ ~crashed
    /\ pc[t] = "rel_delete"
    /\ deleted[it[t]] >= 1
    /\ Abort

\* RelErase with the erase left out
RelErase_NoErase(t) ==
    /\ ~crashed
    /\ pc[t] = "rel_erase"
    /\ pc' = [pc EXCEPT ![t] = "unlock"]
    /\ UNCHANGED <<container_, manager_mutex_, op, instance, it, ret, pre,
                   ext, deleted, inserted, adds, rels, calls, step, mode,
                   crashed, leaked>>

\* RelErase emptying the whole table (container_.clear())
RelErase_Clear(t) ==
    /\ ~crashed
    /\ pc[t] = "rel_erase"
    /\ container_' = EmptyTable
    /\ adds' = [x \in Instance |-> 0]
    /\ rels' = [x \in Instance |-> 0]
    /\ pc' = [pc EXCEPT ![t] = "unlock"]
    /\ UNCHANGED <<manager_mutex_, op, instance, it, ret, pre, ext, deleted,
                   inserted, calls, step, mode, crashed, leaked>>

\* line 116: container_.erase(it)
RelErase(t) ==
    /\ ~crashed
    /\ pc[t] = "rel_erase"
    /\ container_' = Erase(container_, it[t])
    /\ adds' = [adds EXCEPT ![it[t]] = 0]
    /\ rels' = [rels EXCEPT ![it[t]] = 0]
    /\ pc' = [pc EXCEPT ![t] = "unlock"]
    /\ UNCHANGED <<manager_mutex_, op, instance, it, ret, pre, ext, deleted,
                   inserted, calls, step, mode, crashed, leaked>>

\* ------------------------------------------------------------ both calls
\* Unlock on an exit path that leaves the mutex locked
Unlock_KeepsLock(t) ==
    /\ ~crashed
    /\ pc[t] = "unlock"
    /\ pc' = [pc EXCEPT ![t] = "ret"]
    /\ it' = [it EXCEPT ![t] = NoValue]
    /\ pre' = [pre EXCEPT ![t] = NoPre]
    /\ UNCHANGED <<container_, manager_mutex_, op, instance, ret, ext,
                   deleted, inserted, adds, rels, calls, step, mode, crashed,
                   leaked>>

\* ~MutexLock at the return statement: the lock goes, the value is returned
Unlock(t) ==
    /\ ~crashed
    /\ pc[t] = "unlock"
    /\ manager_mutex_' = MutexRelease(manager_mutex_)
    /\ pc' = [pc EXCEPT ![t] = "ret"]
    /\ it' = [it EXCEPT ![t] = NoValue]
    /\ pre' = [pre EXCEPT ![t] = NoPre]
    /\ UNCHANGED <<container_, op, instance, ret, ext, deleted, inserted,
                   calls, step, adds, rels, mode, crashed, leaked>>

\* the caller has the returned value and goes on
Return(t) ==
    /\ ~crashed
    /\ pc[t] = "ret"
    /\ pc' = [pc EXCEPT ![t] = "idle"]
    /\ op' = [op EXCEPT ![t] = NoValue]
    /\ instance' = [instance EXCEPT ![t] = NoValue]
    /\ ret' = [ret EXCEPT ![t] = 0]
    /\ step' = IF mode = "paired" THEN [step EXCEPT ![t] = @ + 1] ELSE step
    /\ UNCHANGED <<container_, manager_mutex_, it, pre, ext, deleted,
                   inserted, calls, adds, rels, mode, crashed, leaked>>

\* ----------------------------------------------------------------- mutex()
\* line 125: a caller locks the mutex that mutex() returns
ExtLock(t) ==
    /\ ~crashed
    /\ mode = "free"
    /\ pc[t] = "idle"
    /\ ~ext[t]
    /\ MutexCanAcquire(manager_mutex_, t)
    /\ manager_mutex_' = MutexAcquire(manager_mutex_, t)
    /\ ext' = [ext EXCEPT ![t] = TRUE]
    /\ UNCHANGED <<container_, pc, op, instance, it, ret, pre, deleted,
                   inserted, calls, step, adds, rels, mode, crashed, leaked>>

\* line 125: and unlocks it
ExtUnlock(t) ==
    /\ ~crashed
    /\ pc[t] = "idle"
    /\ ext[t]
    /\ manager_mutex_' = MutexRelease(manager_mutex_)
    /\ ext' = [ext EXCEPT ![t] = FALSE]
    /\ UNCHANGED <<container_, pc, op, instance, it, ret, pre, deleted,
                   inserted, calls, step, adds, rels, mode, crashed, leaked>>

\* ------------------------------------------------------- ~CppInstanceManager
\* line 66-79 with the clean-up loop run, as in the commented-out code
Teardown_DeletesAll ==
    /\ ~crashed
    /\ \A t \in Thread : pc[t] = "idle"
    /\ manager_mutex_ = MutexFree
    /\ pc' = [t \in Thread |-> "gone"]
    /\ deleted' = [x \in Instance |->
                     IF x \in DOMAIN container_ THEN deleted[x] + 1
                     ELSE deleted[x]]
    /\ leaked' = {}
    /\ container_' = EmptyTable
    /\ UNCHANGED <<manager_mutex_, op, instance, it, ret, pre, ext,
                   inserted, adds, rels, calls, step, mode, crashed>>

\* line 66-79: the destructor body is empty; container_ is destroyed with
\* the manager, which frees its entries and not the instances they name.
\* It runs when no thread is in a call or holds the mutex, and no thread
\* calls into the manager afterwards.
Teardown ==
    /\ ~crashed
    /\ \A t \in Thread : pc[t] = "idle"
    /\ manager_mutex_ = MutexFree
    /\ pc' = [t \in Thread |-> "gone"]
    /\ leaked' = DOMAIN container_
    /\ container_' = EmptyTable
    /\ UNCHANGED <<manager_mutex_, op, instance, it, ret, pre, ext, deleted,
                   inserted, adds, rels, calls, step, mode, crashed>>

\* the manager has been destroyed
TornDown == \A t \in Thread : pc[t] = "gone"

\* a step of t inside a call, from taking the lock to the return
CallStep(t) ==
    \/ AddLock(t) \/ AddFind(t) \/ AddInc(t) \/ AddEmplace(t)
    \/ RelLock(t) \/ RelFind(t) \/ RelDec(t) \/ RelDelete(t) \/ RelErase(t)
    \/ Unlock(t) \/ Return(t)

\* ------------------------------------------------------------------ Next
Next ==
    \/ \E t \in Thread, x \in Instance : AddCall(t, x)
    \/ \E t \in Thread : AddAssertFails(t)
    \/ \E t \in Thread : AddLock(t)
    \/ \E t \in Thread : AddFind(t)
    \/ \E t \in Thread : AddInc(t)
    \/ \E t \in Thread : AddEmplace(t)
    \/ \E t \in Thread, x \in Instance : RelCall(t, x)
    \/ \E t \in Thread : RelLock(t)
    \/ \E t \in Thread : RelFind(t)
    \/ \E t \in Thread : RelDec(t)
    \/ \E t \in Thread : RelDelete(t)
    \/ \E t \in Thread : RelDeleteAgain(t)
    \/ \E t \in Thread : RelErase(t)
    \/ \E t \in Thread : Unlock(t)
    \/ \E t \in Thread : Return(t)
    \/ \E t \in Thread : ExtLock(t)
    \/ \E t \in Thread : ExtUnlock(t)
    \/ Teardown

Spec == Init /\ [][Next]_vars

\* Fair scheduling: a thread that can take a step of its call keeps running,
\* a thread waiting for the mutex gets it if it is free again and again, and
\* a caller that took the mutex through mutex() gives it back.
SpecNearMax == InitNearMax /\ [][Next]_vars

FairSpec ==
    /\ Spec
    /\ \A t \in Thread :
          /\ WF_vars(CallStep(t))
          /\ SF_vars(AddLock(t) \/ RelLock(t))
          /\ SF_vars(ExtUnlock(t))

\* ------------------------------------------------------- reading a state
\* t is between taking the lock and giving it back
InSection(t) ==
    pc[t] \in {"add_find", "add_inc", "add_emplace", "rel_find", "rel_dec",
               "rel_delete", "rel_erase", "unlock"}

Tracked(x) == x \in DOMAIN container_

\* t's call has finished its work on the table and is about to give the lock back
Finishing(t, o) == pc[t] = "unlock" /\ op[t] = o

\* ------------------------------------------------------------------- C1
\* C1 as stated: across any sequence of AddReference/ReleaseReference calls
\* each instance identity is destroyed at most once.
C1_DestroyedAtMostOnce == \A x \in Instance : deleted[x] <= 1

\* C1 as amended: an identity is destroyed at most once for each time it
\* entered the table. Its destructions never outnumber its insertions, and
\* when no call is inside its locked section the insertions exceed the
\* destructions by exactly one for a tracked identity and by none for an
\* untracked one: once destroyed, x is destroyed again only after an
\* AddReference(x) has inserted it anew.
C1_DestroyedOncePerEntry ==
    \A x \in Instance :
        /\ deleted[x] <= inserted[x]
        /\ inserted[x] <= deleted[x] + 1
        /\ (\A t \in Thread : ~InSection(t)) =>
               inserted[x] - deleted[x] =
                   (IF Tracked(x) \/ x \in leaked THEN 1 ELSE 0)

\* a release has destroyed x and x is out of the table again
C1_Witness ==
    /\ deleted["A"] = 1 /\ inserted["A"] = 1 /\ ~Tracked("A")
    /\ \A t \in Thread : pc[t] = "idle"

\* ------------------------------------------------------------------- C2
\* the paired workload: what each thread has got done
AddDone(t) ==
    \/ step[t] >= 1
    \/ op[t] = "AddReference" /\ pc[t] \in {"unlock", "ret"}

RelDone(t) ==
    \/ step[t] = 2
    \/ /\ op[t] = "ReleaseReference"
       /\ pc[t] \in {"rel_delete", "rel_erase", "unlock", "ret"}

AllReturned == \A t \in Thread : step[t] = 2

\* C2 as stated: N threads, each AddReference("A") then ReleaseReference("A"),
\* under every interleaving: "A" is never destroyed twice, it is destroyed
\* only once all N releases have been performed, and once all calls have
\* returned it has been destroyed exactly once.
C2_ExactlyOneDestruction ==
    mode = "paired" =>
        /\ deleted["A"] <= 1
        /\ deleted["A"] >= 1 => \A t \in Thread : RelDone(t)
        /\ AllReturned => deleted["A"] = 1

\* C2 as amended: under the interleavings in which every AddReference("A")
\* has taken effect before the count first returns to zero (so that "A"
\* entered the table once only), "A" is destroyed exactly once, by the last
\* of the N releases. Under every interleaving, once all 2N calls have
\* returned, "A" is untracked and has been destroyed once for each of the
\* 1..N times it entered the table.
C2_OneDestructionPerEntry ==
    mode = "paired" =>
        /\ (inserted["A"] = 1 /\ \A t \in Thread : AddDone(t)) =>
              /\ deleted["A"] <= 1
              /\ deleted["A"] = 1 => \A t \in Thread : RelDone(t)
              /\ AllReturned => deleted["A"] = 1
        /\ AllReturned =>
              /\ ~Tracked("A")
              /\ deleted["A"] = inserted["A"]
              /\ deleted["A"] \in 1..NumThreads

\* all threads have added and released, "A" entered the table once and was
\* destroyed once
C2_Witness ==
    mode = "paired" /\ AllReturned /\ inserted["A"] = 1 /\ deleted["A"] = 1

\* ------------------------------------------------------------------- C3
\* some thread is in ReleaseReference(x), holds the lock, found the count of x
\* at 1 and has lowered it to 0
LoweredToZero(t, x) ==
    /\ op[t] = "ReleaseReference" /\ instance[t] = x /\ it[t] = x
    /\ pc[t] = "rel_delete"
    /\ manager_mutex_.owner = t
    /\ CountOf(pre[t].tbl, x) = 1
    /\ CountOf(container_, x) = 0

\* a thread of the paired workload whose reference on "A" is added and not
\* yet released
Holds(t) ==
    /\ AddDone(t)
    /\ step[t] <= 1
    /\ ~(op[t] = "ReleaseReference" /\
         pc[t] \in {"rel_delete", "rel_erase", "unlock", "ret"})

\* C3: a step destroys x only if it is the delete of a ReleaseReference(x)
\* that holds the lock and has lowered the count of x from 1 to 0; so no step
\* of AddReference destroys and no release that leaves a count of 1 or more
\* does. While a thread of the paired workload holds a reference on "A"
\* and the manager lives,
\* "A" is tracked with a count of at least the number of such threads, and
\* no step destroys it.
C3_DestroyedOnlyAtZeroCrossing ==
    /\ [][\A x \in Instance :
            deleted'[x] > deleted[x] =>
                /\ deleted'[x] = deleted[x] + 1
                /\ \E t \in Thread : LoweredToZero(t, x)
                /\ \A t \in Thread : op[t] = "AddReference" => pc'[t] = pc[t]
                /\ mode = "paired" => \A t \in Thread : ~Holds(t)]_vars
    /\ []((mode = "paired" /\ ~TornDown) =>
            LET holders == {t \in Thread : Holds(t)} IN
            holders # {} =>
                /\ Tracked("A")
                /\ container_["A"] >= Cardinality(holders)
                /\ \A t \in Thread : pc[t] \notin {"rel_delete", "rel_erase"})

\* a release has just destroyed "A" while another thread is in AddReference
C3_Witness ==
    /\ \E t \in Thread :
          /\ op[t] = "ReleaseReference" /\ instance[t] = "A"
          /\ pc[t] = "rel_erase"
          /\ CountOf(pre[t].tbl, "A") = 1
          /\ deleted["A"] = pre[t].del["A"] + 1
    /\ \E u \in Thread : op[u] = "AddReference" /\ instance[u] = "A"

\* ------------------------------------------------------------------- C4
\* C4: whenever the lock is free, or no call is inside its locked section,
\* every key of the table has a count of at least 1 (so x is a key iff its
\* count is at least 1): no entry with count 0 or below remains.
C4_TrackedIffPositive ==
    (manager_mutex_.owner = NoThread \/ \A t \in Thread : ~InSection(t)) =>
        \A x \in Instance : Tracked(x) <=> CountOf(container_, x) >= 1

\* the lock is free after a release took the count of "A" to 0 while "B" is
\* still tracked
C4_Witness ==
    /\ manager_mutex_.owner = NoThread
    /\ ~Tracked("A") /\ deleted["A"] >= 1
    /\ Tracked("B")

\* ------------------------------------------------------------------- C5
\* C5: an AddReference(x), x not null, that is about to give the lock back
\* returns the count it found plus one (1 with a new entry when x was
\* untracked), leaves that value as the stored count of x, and, when no
\* release has lowered x since x entered the table, returns the number of
\* AddReference(x) calls made since then: the n-th of n returns n.
C5_AddReturnsCountAfterIncrement ==
    \A t \in Thread :
        (Finishing(t, "AddReference") /\ instance[t] # Null) =>
            LET x == instance[t] IN
            /\ ret[t] = CountOf(pre[t].tbl, x) + 1
            /\ Tracked(x) /\ container_[x] = ret[t]
            /\ ~(x \in DOMAIN pre[t].tbl) => ret[t] = 1
            /\ rels[x] = 0 => ret[t] = adds[x]

\* the third of three consecutive AddReference("A") returns 3
C5_Witness ==
    \E t \in Thread :
        /\ Finishing(t, "AddReference") /\ instance[t] = "A"
        /\ rels["A"] = 0 /\ adds["A"] = 3 /\ ret[t] = 3

\* ------------------------------------------------------------------- C6
\* C6: a ReleaseReference(x) that found x with count 1 returns 0, has run
\* delete on x once and has removed the entry of x; a ReleaseReference(x)
\* that follows a destruction of x and found x untracked returns -1 and has
\* destroyed nothing; and no count in the table is ever below zero.
C6_ReleaseAtOneDestroysOnce ==
    /\ \A x \in DOMAIN container_ : container_[x] >= 0
    /\ \A t \in Thread :
          (Finishing(t, "ReleaseReference") /\ instance[t] # Null) =>
              LET x == instance[t] IN
              /\ CountOf(pre[t].tbl, x) = 1 =>
                    /\ ret[t] = 0
                    /\ deleted = [pre[t].del EXCEPT ![x] = @ + 1]
                    /\ ~Tracked(x)
              /\ (~(x \in DOMAIN pre[t].tbl) /\ pre[t].del[x] >= 1) =>
                    /\ ret[t] = -1
                    /\ deleted = pre[t].del
                    /\ ~Tracked(x)

\* a second release of "A" after the release that destroyed it, with no
\* AddReference("A") in between
C6_Witness ==
    \E t \in Thread :
        /\ Finishing(t, "ReleaseReference") /\ instance[t] = "A"
        /\ ~("A" \in DOMAIN pre[t].tbl)
        /\ inserted["A"] = 1 /\ deleted["A"] = 1
        /\ ret[t] = -1

\* ------------------------------------------------------------------- C7
\* C7: a ReleaseReference(x) that found x with count n > 1 returns n-1, has
\* destroyed nothing and leaves x tracked with count n-1, from where an
\* AddReference(x) run next returns n.
C7_ReleaseAboveOneKeeps ==
    \A t \in Thread :
        (Finishing(t, "ReleaseReference") /\ instance[t] # Null) =>
            LET x == instance[t]
                n == CountOf(pre[t].tbl, x)
            IN  n > 1 =>
                    /\ ret[t] = n - 1
                    /\ deleted = pre[t].del
                    /\ Tracked(x) /\ container_[x] = n - 1
                    /\ WholeAddReference(container_, deleted, x).ret = n

\* a release of "A" that found the count at 3
C7_Witness ==
    \E t \in Thread :
        /\ Finishing(t, "ReleaseReference") /\ instance[t] = "A"
        /\ CountOf(pre[t].tbl, "A") = 3 /\ ret[t] = 2

\* ------------------------------------------------------------------- C8
\* C8: a ReleaseReference(x), x not null, that found x untracked (never
\* added, or released to zero before) returns -1 and leaves the table and
\* the deletions exactly as it found them.
C8_ReleaseUntrackedReturnsMinusOne ==
    \A t \in Thread :
        (/\ op[t] = "ReleaseReference" /\ instance[t] # Null
         /\ InSection(t)
         /\ ~(instance[t] \in DOMAIN pre[t].tbl)) =>
            /\ container_ = pre[t].tbl
            /\ deleted = pre[t].del
            /\ pc[t] \in {"rel_find", "unlock"}
            /\ pc[t] = "unlock" => ret[t] = -1

\* a release of "B", never added, while "A" is tracked
C8_Witness ==
    \E t \in Thread :
        /\ Finishing(t, "ReleaseReference") /\ instance[t] = "B"
        /\ inserted["B"] = 0 /\ ret[t] = -1
        /\ Tracked("A")

\* ------------------------------------------------------------------- C9
\* C9: ReleaseReference(null) goes from the call to its return in one step
\* that touches neither the lock, the table nor the deletions, whatever the
\* table holds and whoever holds the lock, and the value it returns is -1;
\* it is never waiting for the lock or inside the locked section.
C9_ReleaseNullReturnsMinusOne ==
    /\ [][\A t \in Thread :
            (op'[t] = "ReleaseReference" /\ instance'[t] = Null
             /\ pc[t] = "idle") =>
                /\ pc'[t] = "ret" /\ ret'[t] = -1
                /\ UNCHANGED <<container_, manager_mutex_, deleted,
                               inserted>>]_vars
    /\ [](\A t \in Thread :
            (op[t] = "ReleaseReference" /\ instance[t] = Null) =>
                pc[t] = "ret" /\ ret[t] = -1)

\* ReleaseReference(null) has returned -1 while another thread holds the
\* lock and null is a key of the table
C9_Witness ==
    \E t, u \in Thread :
        /\ op[t] = "ReleaseReference" /\ instance[t] = Null
        /\ pc[t] = "ret" /\ ret[t] = -1
        /\ u # t /\ manager_mutex_.owner = u
        /\ Tracked(Null)

\* ------------------------------------------------------------------ C10
\* C10: a thread between "take the lock" and "give it back", where every
\* read and write of the table is, owns the lock, so at most one thread is
\* there; while the manager lives the table changes only in steps of that
\* thread; and when a call
\* is about to give the lock back, the table, the deletions and the value
\* it returns are those of the whole call run alone on the table it found
\* when it took the lock: the calls take effect one at a time, in the order
\* in which they took the lock.
C10_LockedAndSequential ==
    /\ [][(container_' # container_ /\ ~crashed' /\ ~TornDown') =>
            \E t \in Thread :
                /\ InSection(t) /\ manager_mutex_.owner = t
                /\ pc'[t] # pc[t]]_vars
    /\ [](/\ \A t \in Thread : InSection(t) => manager_mutex_.owner = t
          /\ Cardinality({t \in Thread : InSection(t)}) <= 1
          /\ \A t \in Thread :
                pc[t] = "unlock" =>
                    LET w == WholeCall(op[t], pre[t].tbl, pre[t].del,
                                       instance[t])
                    IN  /\ container_ = w.tbl
                        /\ deleted = w.del
                        /\ ret[t] = w.ret)

\* one thread is inside AddReference("A") on a table that tracks "A" while
\* another waits for the lock in ReleaseReference("A")
C10_Witness ==
    \E t, u \in Thread :
        /\ pc[t] = "add_inc" /\ instance[t] = "A"
        /\ pc[u] = "rel_lock" /\ instance[u] = "A"

\* ------------------------------------------------------------------ C11
\* C11: while a thread t holds the lock it took through mutex(), from its
\* lookup to the end of its AddReference(x), t owns the mutex, no other
\* thread is inside a locked section, every ReleaseReference of another
\* thread is still waiting for the lock or has returned, and every step
\* that changes the table or the deletions is a step of t: no release by
\* another thread takes effect, so none destroys x, before t gives the lock
\* back.
C11_ExternalLockExcludesRelease ==
    /\ [][\A t \in Thread :
            (ext[t] /\ ext'[t] /\ ~crashed') =>
                ((container_' # container_ \/ deleted' # deleted) =>
                    InSection(t) /\ pc'[t] # pc[t])]_vars
    /\ [](\A t \in Thread :
            ext[t] =>
                /\ manager_mutex_.owner = t
                /\ \A u \in Thread \ {t} :
                      /\ ~InSection(u)
                      /\ op[u] = "ReleaseReference" =>
                            pc[u] \in {"rel_lock", "ret"})

\* t took the lock through mutex(), found "A" tracked with count 1 and has
\* added its reference, while another thread's ReleaseReference("A") waits
C11_Witness ==
    \E t, u \in Thread :
        /\ ext[t] /\ Finishing(t, "AddReference") /\ instance[t] = "A"
        /\ CountOf(pre[t].tbl, "A") = 1 /\ ret[t] = 2
        /\ u # t /\ pc[u] = "rel_lock" /\ instance[u] = "A"

C13_TeardownDestroysNothing ==
    /\ [][(TornDown' /\ ~TornDown) =>
            /\ deleted' = deleted
            /\ leaked' = DOMAIN container_]_vars
    /\ [][TornDown => deleted' = deleted]_vars
    /\ [](TornDown =>
            \A x \in Instance :
                /\ deleted[x] <= inserted[x]
                /\ x \in leaked <=> inserted[x] = deleted[x] + 1)

\* the manager was destroyed while it tracked "A", after a release had
\* destroyed "B"
C13_Witness ==
    /\ TornDown
    /\ "A" \in leaked /\ deleted["A"] = 0
    /\ deleted["B"] = 1 /\ "B" \notin leaked

\* ------------------------------------------------------------------ C14
\* t has lowered a count to 0 and has not yet erased the entry
AtZeroCrossing(t) == pc[t] \in {"rel_delete", "rel_erase"}

\* C14: from the decrement to 0 to the erase the releasing thread owns the
\* lock and no other thread is inside a locked section, so an
\* AddReference(x) of another thread is still waiting for the lock or has
\* returned; an entry with count 0 exists only during such a zero crossing;
\* an AddReference about to increment finds a count of at least 1 on an
\* instance not destroyed since it took the lock, and no step raises a count
\* of 0 or a count during a zero crossing; a release that returns 1 or more
\* has destroyed nothing; and an AddReference that took the lock after x was
\* destroyed and erased inserts a fresh entry and returns 1.
C14_ZeroCrossingIsAtomic ==
    /\ [][\A x \in Instance :
            (Tracked(x) /\ x \in DOMAIN container_'
             /\ container_'[x] > container_[x]) =>
                /\ container_[x] >= 1
                /\ \A t \in Thread : ~AtZeroCrossing(t)]_vars
    /\ [](/\ \A t \in Thread :
                AtZeroCrossing(t) =>
                    /\ manager_mutex_.owner = t
                    /\ container_[it[t]] = 0
                    /\ \A u \in Thread \ {t} : ~InSection(u)
          /\ \A x \in DOMAIN container_ :
                container_[x] = 0 =>
                    \E t \in Thread : AtZeroCrossing(t) /\ it[t] = x
          /\ \A u \in Thread :
                pc[u] = "add_inc" =>
                    /\ Tracked(it[u]) /\ container_[it[u]] >= 1
                    /\ deleted = pre[u].del
          /\ \A t \in Thread :
                (Finishing(t, "ReleaseReference") /\ ret[t] >= 1) =>
                    deleted = pre[t].del
          /\ \A u \in Thread :
                (/\ Finishing(u, "AddReference")
                 /\ pre[u].del[instance[u]] >= 1
                 /\ ~(instance[u] \in DOMAIN pre[u].tbl)) =>
                    /\ ret[u] = 1
                    /\ Tracked(instance[u])
                    /\ container_[instance[u]] = 1)

\* a release has destroyed "A" and not yet erased it while an
\* AddReference("A") of another thread waits for the lock
C14_Witness ==
    \E t, u \in Thread :
        /\ pc[t] = "rel_erase" /\ it[t] = "A"
        /\ container_["A"] = 0 /\ deleted["A"] = 1
        /\ pc[u] = "add_lock" /\ instance[u] = "A"

\* ------------------------------------------------------------------ C15
\* t is inside a call that has not yet returned
InCall(t) == pc[t] \notin {"idle", "ret", "gone"}

\* C15: under fair scheduling, with every lock taken through mutex() given
\* back, each call that has started reaches its return (unless the process
\* is aborted); and a thread that is in no locked section and holds no lock
\* from mutex() does not own the mutex: each call gives back on its way out
\* the one lock it took.
C15_EveryCallReturns ==
    /\ \A t \in Thread : InCall(t) ~> (pc[t] = "ret" \/ crashed)
    /\ [](\A t \in Thread :
            (~InSection(t) /\ ~ext[t]) => manager_mutex_.owner # t)

\* a ReleaseReference has returned 0 and given the lock back, which the
\* AddReference of another thread, waiting for it, can now take
C15_Witness ==
    \E t, u \in Thread :
        /\ pc[t] = "ret" /\ op[t] = "ReleaseReference" /\ ret[t] = 0
        /\ u # t /\ pc[u] = "add_lock" /\ ~ext[u]
        /\ manager_mutex_ = MutexFree

\* ------------------------------------------------------------------ C16
\* y has the same tracked status, count and deletions in both tables
SameEntry(tblA, delA, tblB, delB, y) ==
    /\ (y \in DOMAIN tblA) <=> (y \in DOMAIN tblB)
    /\ CountOf(tblA, y) = CountOf(tblB, y)
    /\ delA[y] = delB[y]

\* C16: while the manager lives, a step that changes the tracked status,
\* the count or the deletions of an instance y is a step of a thread inside
\* a call on y; and a call on x that is about to give the lock back, whether
\* it inserted, incremented, decremented, destroyed or is returning -1, has
\* left every other instance y as it was when the call took the lock.
C16_OnlyOwnEntryChanges ==
    /\ [][(~crashed' /\ ~TornDown') =>
            \A y \in Instance :
                ~SameEntry(container_, deleted, container_', deleted', y) =>
                    \E t \in Thread :
                        /\ InSection(t) /\ pc'[t] # pc[t]
                        /\ instance[t] = y]_vars
    /\ [](\A t \in Thread :
            pc[t] = "unlock" =>
                \A y \in Instance \ {instance[t]} :
                    SameEntry(pre[t].tbl, pre[t].del, container_, deleted, y))

\* ReleaseReference("A") has destroyed and erased "A" while "B" is tracked
\* with count 2
C16_Witness ==
    \E t \in Thread :
        /\ Finishing(t, "ReleaseReference") /\ instance[t] = "A"
        /\ ret[t] = 0 /\ deleted["A"] = 1 /\ ~Tracked("A")
        /\ CountOf(container_, "B") = 2 /\ CountOf(pre[t].tbl, "B") = 2

\* ------------------------------------------------------------------ C17
\* the threads whose AddReference(x) has computed its return value
AddersOf(x) ==
    {t \in Thread : /\ pc[t] \in {"unlock", "ret"}
                    /\ op[t] = "AddReference" /\ instance[t] = x}

\* C17: while the manager lives and x is tracked, its count is the number of AddReference(x) calls
\* minus the number of ReleaseReference(x) calls that lowered it, counted
\* since x entered the table; and as long as no release on x has taken
\* effect, the AddReference(x) calls that have computed their result hold
\* pairwise different values between 1 and the count, which are exactly
\* 1..N when those N calls are all the calls made on x.
C17_NoLostUpdate ==
    (~crashed /\ ~TornDown) =>
        \A x \in Instance :
            /\ Tracked(x) => container_[x] = adds[x] - rels[x]
            /\ ~Tracked(x) => adds[x] = 0 /\ rels[x] = 0
            /\ (rels[x] = 0 /\ deleted[x] = 0) =>
                  /\ \A t \in AddersOf(x) : ret[t] \in 1..CountOf(container_, x)
                  /\ \A t, u \in AddersOf(x) : t # u => ret[t] # ret[u]
                  /\ Cardinality(AddersOf(x)) = adds[x] =>
                        /\ {ret[t] : t \in AddersOf(x)} = 1..adds[x]
                        /\ CountOf(container_, x) = adds[x]

\* every thread has made one AddReference("A"), the calls overlapped (the
\* one that returned the lower value has not returned to its caller yet when
\* the other computes its own), and the results are 1..NumThreads
C17_Witness ==
    /\ AddersOf("A") = Thread
    /\ {ret[t] : t \in Thread} = 1..NumThreads
    /\ container_["A"] = NumThreads /\ adds["A"] = NumThreads
    /\ rels["A"] = 0 /\ deleted["A"] = 0
    /\ \E t \in Thread : pc[t] = "unlock" /\ ret[t] = NumThreads

\* ------------------------------------------------------------------ C18
\* C18: every count in the table is non-negative, and every AddReference
\* that has computed its result returns 1 or more, also when the count it
\* increments is Int32Max.
C18_CountNonNegativeAddAtLeastOne ==
    /\ \A x \in DOMAIN container_ : container_[x] >= 0
    /\ \A t \in Thread : Finishing(t, "AddReference") => ret[t] >= 1

\* ------------------------------------------------------------------ C19
\* C19: with the debug assertion inactive, AddReference(null) leaves null
\* tracked, with count 1 when it was untracked and one more than before
\* otherwise; ReleaseReference(null) never reaches the lock or the table and
\* returns -1; so while the manager lives the null entry, once there, stays
\* in the table, its count never goes down and null is never deleted.
C19_NullEntryIsNeverRemoved ==
    /\ [][(~crashed' /\ ~TornDown' /\ Tracked(Null)) =>
            /\ Null \in DOMAIN container_'
            /\ container_'[Null] >= container_[Null]]_vars
    /\ [](\A t \in Thread :
            /\ (Finishing(t, "AddReference") /\ instance[t] = Null) =>
                  /\ Tracked(Null)
                  /\ container_[Null] = CountOf(pre[t].tbl, Null) + 1
                  /\ ret[t] = container_[Null]
            /\ (op[t] = "ReleaseReference" /\ instance[t] = Null) =>
                  /\ pc[t] = "ret" /\ ret[t] = -1
                  /\ manager_mutex_.owner = t => ext[t])
    /\ [](deleted[Null] = 0)

\* null is tracked with count 2 and a ReleaseReference(null) has returned -1
C19_Witness ==
    \E t \in Thread :
        /\ pc[t] = "ret" /\ op[t] = "ReleaseReference" /\ instance[t] = Null
        /\ ret[t] = -1
        /\ Tracked(Null) /\ container_[Null] = 2 /\ adds[Null] = 2

====
